---- MODULE Spec2Model ----
(***************************************************************************)
(* Model of the Spotify personalization / audio-analysis client:           *)
(*   Client.CurrentUserRecentTracks, Client.CurrentUserTopTracks,          *)
(*   Client.CurrentUserTopArtists   (personalization.go)                   *)
(*   Client.GetAudioAnalysis        (audio analysis file)                  *)
(* Every operation validates its parameters, builds a URL, performs one    *)
(* GET through c.http, checks the status code and decodes the JSON body    *)
(* into a struct whose fields are bound to JSON keys by struct tags.       *)
(***************************************************************************)
EXTENDS Integers, Sequences, FiniteSets, TLC

(***************************************************************************)
(* JSON values.  Every value is a record with a kind k; scalars carry      *)
(* their payload in s (strings) or n (numbers, booleans as 0/1, fractions  *)
(* in thousandths); objects carry a function from keys to values in o and  *)
(* arrays a sequence in a.                                                 *)
(***************************************************************************)
JStr(s) == [k |-> "str", s |-> s, n |-> 0]
JNum(n) == [k |-> "num", s |-> "", n |-> n]
JFrac(m) == [k |-> "frac", s |-> "", n |-> m]
JBool(b) == [k |-> "bool", s |-> "", n |-> IF b THEN 1 ELSE 0]
JNull == [k |-> "null", s |-> "", n |-> 0]
JObj(f) == [k |-> "obj", s |-> "", n |-> 0, o |-> f]
JArr(q) == [k |-> "arr", s |-> "", n |-> 0, a |-> q]

(***************************************************************************)
(* Struct definitions: one field descriptor per struct field, giving the   *)
(* Go field name f, the JSON key of its struct tag (the part before any    *)
(* ",omitempty" option), its element type ty and whether it is a slice.    *)
(* URI and ID are string types; SimpleTrack, Image and Followers are       *)
(* structs declared elsewhere in the package and are kept opaque.          *)
(***************************************************************************)
F(f, tag, ty) == [f |-> f, tag |-> tag, ty |-> ty, slice |-> FALSE]
FS(f, tag, ty) == [f |-> f, tag |-> tag, ty |-> ty, slice |-> TRUE]

PlayHistory ==
    { FS("Items", "items", "HistoryItem"), F("Next", "next", "string"),
      F("Limit", "limit", "int"), F("Endpoint", "href", "string") }

TrackContext ==
    { F("Type", "type", "string"), F("Endpoint", "href", "string"),
      F("ExternalURLS", "external_urls", "map"), F("URI", "uri", "string") }

HistoryItem ==
    { F("Track", "track", "SimpleTrack"), F("PlayedAt", "played_at", "string"),
      F("Context", "context", "TrackContext") }

TopTracks ==
    { FS("Items", "items", "TrackItem"), F("Total", "total", "int"),
      F("Limit", "limit", "int"), F("Offset", "offset", "int"),
      F("Endpoint", "href", "string"), F("Previous", "previous", "string"),
      F("Next", "next", "string") }

TrackItem ==
    { F("Album", "album", "AlbumInfo"), FS("Artists", "artists", "ArtistInfo"),
      F("DiscNumber", "disc_number", "int"), F("DurationMS", "duration_ms", "int"),
      F("Explicit", "explicit", "bool"), F("ExternalIDs", "external_ids", "map"),
      F("ExternalURLs", "external_urls", "map"), F("Endpoint", "href", "string"),
      F("ID", "id", "string"), F("IsPlayable", "is_playable", "bool"),
      F("Name", "name", "string"), F("Popularity", "popularity", "int"),
      F("PreviewURL", "preview_url", "string"),
      F("TrackNumber", "track_number", "int"),
      F("Type", "track", "string"), F("URI", "uri", "string") }

AlbumInfo ==
    { F("AlbumType", "album_type", "string"),
      F("ExternalURLs", "external_urls", "map"), F("Endpoint", "href", "string"),
      F("ID", "id", "string"), FS("Images", "images", "Image"),
      F("Name", "name", "string"), F("ItemType", "type", "string"),
      F("URI", "uri", "string") }

TopArtists ==
    { FS("Items", "items", "ArtistItem"), F("Total", "total", "int"),
      F("Limit", "limit", "int"), F("Offset", "offset", "int"),
      F("Endpoint", "href", "string"), F("Previous", "previous", "string"),
      F("Next", "next", "string") }

ArtistItem ==
    { F("ExternalURLs", "external_urls", "map"),
      F("Followers", "followers", "Followers"), FS("Genres", "genres", "string"),
      F("Endpoint", "href", "string"), F("ID", "id", "string"),
      FS("Images", "images", "Image"), F("Name", "name", "string"),
      F("Popularity", "popularity", "int"), F("Type", "type", "string"),
      F("URI", "uri", "string") }

ArtistInfo ==
    { F("ExternalURLs", "external_urls", "map"), F("Endpoint", "href", "string"),
      F("ID", "id", "string"), F("Name", "name", "string"),
      F("Type", "type", "string"), F("URI", "uri", "string") }

AudioAnalysis ==
    { FS("Bars", "bars", "BeatBar"), FS("Beats", "beats", "BeatBar"),
      F("Meta", "meta", "Meta"), FS("Sections", "sections", "Section"),
      FS("Segments", "segments", "Segment"), FS("Tatums", "tatums", "Tatum"),
      F("TrackInfo", "track", "TrackInfo") }

BeatBar ==
    { F("Start", "start", "float64"), F("Duration", "duration", "float64"),
      F("Confidence", "confidence", "float64") }

Meta ==
    { F("Analyzer", "analyzer_version", "string"), F("Platform", "platform", "string"),
      F("Status", "detailed_status", "string"), F("StatusCode", "status_code", "int"),
      F("Timestamp", "timestamp", "int"),
      F("AnalysisTime", "analysis_time", "float64"),
      F("InputProcess", "input_process", "string") }

Section ==
    { F("Start", "start", "float64"), F("Duration", "duration", "float64"),
      F("Confidence", "confidence", "float64"), F("Loudness", "loudness", "float64"),
      F("Tempo", "tempo", "float64"),
      F("TempoConfidence", "tempo_confidence", "float64"),
      F("Key", "key", "int"), F("KeyConfidence", "key_confidence", "float64"),
      F("Mode", "mode", "int"), F("ModeConfidence", "mode_confidence", "float64"),
      F("TimeSignature", "time_signature", "int"),
      F("TimeSigConfidence", "time_signature_confidence", "float64") }

Segment ==
    { F("Start", "start", "float64"), F("Duration", "duration", "float64"),
      F("Confidence", "confidence", "float64"),
      F("LoudnessStart", "loudness_start", "float64"),
      F("LoudnessMaxTime", "loudness_max_time", "float64"),
      F("LoudnessMax", "loudness_max", "float64"),
      F("LoudnessEnd", "loudness_end", "float64"),
      FS("Pitches", "pitches", "float64"), FS("Timbre", "timbre", "float64") }

Tatum ==
    { F("Start", "start", "float64"), F("Duration", "duration", "float64"),
      F("Confidence", "confidence", "float64") }

TrackInfo ==
    { F("NumSamples", "num_samples", "int"), F("Duration", "duration", "float64"),
      F("SampleMD5", "sample_md5", "string"),
      F("OffsetSeconds", "offset_seconds", "float64"),
      F("WindowSeconds", "window_seconds", "float64"),
      F("AnalysisSampleRate", "analysis_sample_rate", "int"),
      F("AnalysisChannels", "analysis_channels", "int"),
      F("EndFadeIn", "end_of_fade_in", "float64"),
      F("StartFadeOut", "start_of_fade_out", "float64"),
      F("Loudness", "loudness", "float64"), F("Tempo", "tempo", "float64"),
      F("TempoConfidence", "tempo_confidence", "float64"),
      F("TimeSignature", "time_signature", "int"),
      F("TimeSigConfidence", "time_signature_confidence", "float64"),
      F("Key", "key", "int"), F("KeyConfidence", "key_confidence", "float64"),
      F("Mode", "mode", "int"), F("ModeConfidence", "mode_confidence", "float64"),
      F("Codestring", "codestring", "string"),
      F("CodeVersion", "code_version", "float64"),
      F("EchoPrintString", "echoprintstring", "string"),
      F("EchoPrintVersion", "echoprint_version", "float64"),
      F("SynchString", "synchstring", "string"),
      F("SynchVersion", "synch_version", "float64"),
      F("RhythmString", "rhythmstring", "string"),
      F("RhythmVersion", "rhythm_version", "float64") }

StructNames ==
    { "PlayHistory", "TrackContext", "HistoryItem", "TopTracks", "TrackItem",
      "AlbumInfo", "TopArtists", "ArtistItem", "ArtistInfo", "AudioAnalysis",
      "BeatBar", "Meta", "Section", "Segment", "Tatum", "TrackInfo" }

Fields(S) ==
    CASE S = "PlayHistory" -> PlayHistory
      [] S = "TrackContext" -> TrackContext
      [] S = "HistoryItem" -> HistoryItem
      [] S = "TopTracks" -> TopTracks
      [] S = "TrackItem" -> TrackItem
      [] S = "AlbumInfo" -> AlbumInfo
      [] S = "TopArtists" -> TopArtists
      [] S = "ArtistItem" -> ArtistItem
      [] S = "ArtistInfo" -> ArtistInfo
      [] S = "AudioAnalysis" -> AudioAnalysis
      [] S = "BeatBar" -> BeatBar
      [] S = "Meta" -> Meta
      [] S = "Section" -> Section
      [] S = "Segment" -> Segment
      [] S = "Tatum" -> Tatum
      [] S = "TrackInfo" -> TrackInfo

FieldNames(S) == { fd.f : fd \in Fields(S) }
FieldOf(S, f) == CHOOSE fd \in Fields(S) : fd.f = f

(***************************************************************************)
(* encoding/json decoding into a struct, as json.NewDecoder(body).Decode   *)
(* does it: a key that matches a field's tag is decoded into that field,   *)
(* keys matching no tag are ignored, fields whose tag is absent keep their *)
(* zero value, null leaves a field at its zero value, and a value of the   *)
(* wrong JSON kind for the field's Go type is an error.  Results are       *)
(* [err, val]; val is a function from Go field names to Go values          *)
(* (float64 values are held in thousandths).                               *)
(***************************************************************************)
ScalarTypes == { "string", "int", "float64", "bool", "map" }
OpaqueStructs == { "SimpleTrack", "Image", "Followers" }
EmptyMap == [x \in {} |-> ""]

RECURSIVE ZeroStruct(_)
ZeroElem(ty) ==
    CASE ty = "string" -> ""
      [] ty = "int" -> 0
      [] ty = "float64" -> 0
      [] ty = "bool" -> FALSE
      [] ty = "map" -> EmptyMap
      [] ty \in OpaqueStructs -> EmptyMap
      [] OTHER -> ZeroStruct(ty)
ZeroField(fd) == IF fd.slice THEN << >> ELSE ZeroElem(fd.ty)
ZeroStruct(S) == [f \in FieldNames(S) |-> ZeroField(FieldOf(S, f))]

Ok(val) == [err |-> FALSE, val |-> val]
TypeError(ty) == [err |-> TRUE, val |-> ZeroElem(ty)]

DecodeScalar(ty, v) ==
    CASE ty = "string" -> IF v.k = "str" THEN Ok(v.s) ELSE TypeError(ty)
      [] ty = "int" -> IF v.k = "num" THEN Ok(v.n) ELSE TypeError(ty)
      [] ty = "float64" ->
            IF v.k = "num" THEN Ok(v.n * 1000)
            ELSE IF v.k = "frac" THEN Ok(v.n) ELSE TypeError(ty)
      [] ty = "bool" -> IF v.k = "bool" THEN Ok(v.n = 1) ELSE TypeError(ty)
      [] ty = "map" ->
            IF v.k = "obj"
            THEN [err |-> \E key \in DOMAIN v.o : v.o[key].k \notin {"str", "null"},
                  val |-> [key \in DOMAIN v.o |-> v.o[key].s]]
            ELSE TypeError(ty)

RECURSIVE DecodeStruct(_, _)
DecodeElem(ty, v) ==
    IF v.k = "null" THEN Ok(ZeroElem(ty))
    ELSE IF ty \in ScalarTypes THEN DecodeScalar(ty, v)
    ELSE IF ty \in OpaqueStructs
         THEN IF v.k = "obj" THEN Ok(v.o) ELSE TypeError(ty)
    ELSE DecodeStruct(ty, v)

DecodeField(fd, v) ==
    IF ~fd.slice THEN DecodeElem(fd.ty, v)
    ELSE IF v.k = "null" THEN Ok(<< >>)
    ELSE IF v.k # "arr" THEN [err |-> TRUE, val |-> << >>]
    ELSE LET ds == [i \in DOMAIN v.a |-> DecodeElem(fd.ty, v.a[i])]
         IN  [err |-> \E i \in DOMAIN v.a : ds[i].err,
              val |-> [i \in DOMAIN v.a |-> ds[i].val]]

DecodeStruct(S, v) ==
    IF v.k = "null" THEN Ok(ZeroStruct(S))
    ELSE IF v.k # "obj" THEN [err |-> TRUE, val |-> ZeroStruct(S)]
    ELSE LET ds == [f \in FieldNames(S) |->
                      LET fd == FieldOf(S, f)
                      IN  IF fd.tag \in DOMAIN v.o
                          THEN DecodeField(fd, v.o[fd.tag])
                          ELSE Ok(ZeroField(fd))]
         IN  [err |-> \E f \in FieldNames(S) : ds[f].err,
              val |-> [f \in FieldNames(S) |-> ds[f].val]]

(***************************************************************************)
(* Response bodies the upstream service may send, named by their content.  *)
(***************************************************************************)
TrackA ==
    JObj([name |-> JStr("Song A"), type |-> JStr("track"), id |-> JStr("t1"),
          uri |-> JStr("spotify:track:t1"), href |-> JStr("https://api/t1"),
          popularity |-> JNum(7), explicit |-> JBool(TRUE),
          disc_number |-> JNum(1), track_number |-> JNum(3),
          duration_ms |-> JNum(180),
          album |-> JObj([name |-> JStr("LP"), type |-> JStr("album"),
                          album_type |-> JStr("single")]),
          artists |-> JArr(<<JObj([name |-> JStr("Ann"), type |-> JStr("artist")])>>),
          external_ids |-> JObj([isrc |-> JStr("X1")])])
TrackB ==
    JObj([name |-> JStr("Song B"), type |-> JStr("track"), id |-> JStr("t2"),
          track |-> JStr("other"), is_playable |-> JBool(FALSE),
          preview_url |-> JNull])
ArtistA ==
    JObj([name |-> JStr("Ann"), type |-> JStr("artist"), id |-> JStr("a1"),
          genres |-> JArr(<<JStr("pop"), JStr("rock")>>),
          popularity |-> JNum(9), followers |-> JObj([total |-> JNum(5)])])
HistoryA ==
    JObj([played_at |-> JStr("2017-01-01"),
          track |-> JObj([name |-> JStr("Song A")]),
          context |-> JObj([type |-> JStr("playlist"), uri |-> JStr("spotify:p:1"),
                            external_urls |-> JObj([spotify |-> JStr("u")])])])

BodyNames ==
    { "malformed", "null", "array", "emptyObj", "error", "tracks1", "tracks2",
      "tracksBadLimit", "artists1", "history1", "analysis1", "analysisBadKey" }

Wellformed(b) == b # "malformed"

ParseJSON(b) ==
    CASE b = "null" -> JNull
      [] b = "array" -> JArr(<< >>)
      [] b = "emptyObj" -> JObj([x \in {} |-> JNull])
      [] b = "error" ->
            JObj([error |-> JObj([status |-> JNum(401),
                                  message |-> JStr("token expired")])])
      [] b = "tracks1" ->
            JObj([items |-> JArr(<<TrackA>>), total |-> JNum(1), limit |-> JNum(1),
                  offset |-> JNum(0), href |-> JStr("https://api/top"),
                  previous |-> JNull, next |-> JNull])
      [] b = "tracks2" ->
            JObj([items |-> JArr(<<TrackA, TrackB>>), total |-> JNum(9),
                  limit |-> JNum(2), offset |-> JNum(2),
                  href |-> JStr("https://api/top"), previous |-> JStr("p"),
                  next |-> JStr("n")])
      [] b = "tracksBadLimit" ->
            JObj([items |-> JArr(<<TrackA>>), total |-> JNum(1),
                  limit |-> JStr("one")])
      [] b = "artists1" ->
            JObj([items |-> JArr(<<ArtistA>>), total |-> JNum(1), limit |-> JNum(1),
                  offset |-> JNum(0), href |-> JStr("https://api/artists")])
      [] b = "history1" ->
            JObj([items |-> JArr(<<HistoryA>>), next |-> JStr("n"),
                  limit |-> JNum(1), href |-> JStr("https://api/recent")])
      [] b = "analysis1" ->
            JObj([bars |-> JArr(<<JObj([start |-> JFrac(250), duration |-> JNum(2),
                                        confidence |-> JFrac(900)])>>),
                  meta |-> JObj([analyzer_version |-> JStr("4.0.0"),
                                 status_code |-> JNum(0),
                                 detailed_status |-> JStr("OK")]),
                  track |-> JObj([num_samples |-> JNum(100), tempo |-> JFrac(120500),
                                  key |-> JNum(5), codestring |-> JStr("abc")]),
                  segments |-> JArr(<<JObj([start |-> JNum(0),
                                            pitches |-> JArr(<<JFrac(100), JNum(1)>>)])>>)])
      [] b = "analysisBadKey" ->
            JObj([track |-> JObj([key |-> JFrac(5500)])])

(* json.NewDecoder(body).Decode(&x) for x of struct type S: a syntax error *)
(* (or an empty body) is an error, otherwise the value is decoded into x.  *)
JSONDecode(S, b) ==
    IF ~Wellformed(b) THEN [err |-> TRUE, val |-> ZeroStruct(S)]
    ELSE DecodeStruct(S, ParseJSON(b))

(***************************************************************************)
(* Parameters, errors and responses.                                       *)
(***************************************************************************)
CountLimit == 50
StatusOK == 200
Margin == 2

Callers == { "c1", "c2" }
Operations == { "CurrentUserRecentTracks", "CurrentUserTopTracks",
                "CurrentUserTopArtists", "GetAudioAnalysis" }
TopOperations == { "CurrentUserTopTracks", "CurrentUserTopArtists" }
CountedOperations == Operations \ { "GetAudioAnalysis" }

Totals == (0 - Margin) .. (CountLimit + Margin)
TimeLabels == { "short", "medium", "long", "", "short_term", "SHORT", "year" }
TrackIDs == { "t1", "" }
Statuses == { 200, 201, 204, 301, 401, 404, 500 }
TransportErrors == { "timeout", "connection refused" }

NoError == [nil |-> TRUE, origin |-> "", msg |-> ""]
ErrorsNew(msg) == [nil |-> FALSE, origin |-> "errors.New", msg |-> msg]
TransportError(e) == [nil |-> FALSE, origin |-> "http.Get", msg |-> e]
DecodeErr(b) == [nil |-> FALSE, origin |-> "json.Decode", msg |-> b]

(* The messages of the local validation errors. *)
CountError(o) ==
    CASE o = "CurrentUserRecentTracks" ->
            ErrorsNew("CurrentUserRecentTracks supports up to 50 tracks per call")
      [] o = "CurrentUserTopTracks" ->
            ErrorsNew("CurrentUserTopTracks supports up to 50 tracks per call")
      [] o = "CurrentUserTopArtists" ->
            ErrorsNew("CurrentUserTopArtists supports up to 50 tracks per call")

TimeError(o) ==
    CASE o = "CurrentUserTopTracks" ->
            ErrorsNew("CurrentUserTopTracks supports \"short\", \"medium\", and \"long\" time ranges")
      [] o = "CurrentUserTopArtists" ->
            ErrorsNew("CurrentUserTopArtists supports \"short\", \"medium\", and \"long\" time ranges")

(* decodeError(resp.Body): the error carried by the upstream body.        *)
decodeError(b) == [nil |-> FALSE, origin |-> "decodeError", msg |-> b]

NilResult == [nil |-> TRUE, v |-> EmptyMap]
Pointer(x) == [nil |-> FALSE, v |-> x]

NoResponse == [err |-> NoError, status |-> 0, body |-> ""]
Failed(e) == [err |-> TransportError(e), status |-> 0, body |-> ""]
Response(st, b) == [err |-> NoError, status |-> st, body |-> b]
Responses ==
    { Failed(e) : e \in TransportErrors }
        \cup { Response(st, b) : st \in Statuses, b \in BodyNames }

NoURL == [path |-> "", time_range |-> << >>, limit |-> 0, id |-> ""]

(* Variant: the lower bound of the count check is off by one. *)
CountInvalidOffByOne(total) == total < 0 \/ total > CountLimit

(* total <= 0 || total > 50 *)
CountInvalid(total) == total <= 0 \/ total > CountLimit

(* Variant: the label is compared against the suffixed forms as well. *)
TimeInvalidSuffixed(time) ==
    time \notin { "short", "medium", "long", "short_term", "medium_term", "long_term" }

(* time != "short" && time != "medium" && time != "long" *)
TimeInvalid(time) == time # "short" /\ time # "medium" /\ time # "long"

(* Variant: only client and server error statuses are upstream errors. *)
StatusNotOKFrom400(status) == status >= 400

(* Variant: every 2xx status is taken as success. *)
StatusNotOKOutside2xx(status) == status < 200 \/ status > 299

(* resp.StatusCode != http.StatusOK *)
StatusNotOK(status) == status # StatusOK

ResultType(o) ==
    CASE o = "CurrentUserRecentTracks" -> "PlayHistory"
      [] o = "CurrentUserTopTracks" -> "TopTracks"
      [] o = "CurrentUserTopArtists" -> "TopArtists"
      [] o = "GetAudioAnalysis" -> "AudioAnalysis"

VARIABLES pc, op, total, time, id, url, resp, result, err, gets, reads, closes

vars == << pc, op, total, time, id, url, resp, result, err, gets, reads, closes >>

Init ==
    /\ pc = [c \in Callers |-> "idle"]
    /\ op = [c \in Callers |-> ""]
    /\ total = [c \in Callers |-> 0]
    /\ time = [c \in Callers |-> ""]
    /\ id = [c \in Callers |-> ""]
    /\ url = [c \in Callers |-> NoURL]
    /\ resp = [c \in Callers |-> NoResponse]
    /\ result = [c \in Callers |-> NilResult]
    /\ err = [c \in Callers |-> NoError]
    /\ gets = [c \in Callers |-> 0]
    /\ reads = [c \in Callers |-> 0]
    /\ closes = [c \in Callers |-> 0]

(* The call is entered with its arguments. *)
Enter(c, o, tot, tm, tid) ==
    /\ pc[c] = "idle"
    /\ op' = [op EXCEPT ![c] = o]
    /\ total' = [total EXCEPT ![c] = tot]
    /\ time' = [time EXCEPT ![c] = tm]
    /\ id' = [id EXCEPT ![c] = tid]
    /\ UNCHANGED << resp, gets, reads, closes >>

(* return nil, e *)
ReturnError(c, e) ==
    /\ result' = [result EXCEPT ![c] = NilResult]
    /\ err' = [err EXCEPT ![c] = e]
    /\ pc' = [pc EXCEPT ![c] = "done"]

(* return &x, nil *)
ReturnResult(c, x) ==
    /\ result' = [result EXCEPT ![c] = Pointer(x)]
    /\ err' = [err EXCEPT ![c] = NoError]
    /\ pc' = [pc EXCEPT ![c] = "done"]

(* The URL is built and the call is about to perform its GET. *)
Request(c, u) ==
    /\ url' = [url EXCEPT ![c] = u]
    /\ pc' = [pc EXCEPT ![c] = "get"]
    /\ UNCHANGED << result, err >>

(* Variant: the deferred close is missing. *)
DeferredCloseMissing(n) == n

(* defer resp.Body.Close(), run when the function returns. *)
DeferredClose(n) == n + 1

CurrentUserRecentTracks(c, tot) ==
    /\ Enter(c, "CurrentUserRecentTracks", tot, "", "")
    /\ IF CountInvalid(tot)
       THEN /\ ReturnError(c, CountError("CurrentUserRecentTracks"))
            /\ UNCHANGED url
       ELSE Request(c, [path |-> "me/player/recently-played", time_range |-> << >>,
                        limit |-> tot, id |-> ""])

(* Variant: the time-range label is checked before the count. *)
CurrentUserTopTracksTimeFirst(c, tot, tm) ==
    /\ Enter(c, "CurrentUserTopTracks", tot, tm, "")
    /\ IF TimeInvalid(tm)
       THEN /\ ReturnError(c, TimeError("CurrentUserTopTracks"))
            /\ UNCHANGED url
       ELSE IF CountInvalid(tot)
       THEN /\ ReturnError(c, CountError("CurrentUserTopTracks"))
            /\ UNCHANGED url
       ELSE Request(c, [path |-> "me/top/tracks", time_range |-> << tm, "_term" >>,
                        limit |-> tot, id |-> ""])

CurrentUserTopTracks(c, tot, tm) ==
    /\ Enter(c, "CurrentUserTopTracks", tot, tm, "")
    /\ IF CountInvalid(tot)
       THEN /\ ReturnError(c, CountError("CurrentUserTopTracks"))
            /\ UNCHANGED url
       ELSE IF TimeInvalid(tm)
       THEN /\ ReturnError(c, TimeError("CurrentUserTopTracks"))
            /\ UNCHANGED url
       ELSE Request(c, [path |-> "me/top/tracks", time_range |-> << tm, "_term" >>,
                        limit |-> tot, id |-> ""])

CurrentUserTopArtists(c, tot, tm) ==
    /\ Enter(c, "CurrentUserTopArtists", tot, tm, "")
    /\ IF CountInvalid(tot)
       THEN /\ ReturnError(c, CountError("CurrentUserTopArtists"))
            /\ UNCHANGED url
       ELSE IF TimeInvalid(tm)
       THEN /\ ReturnError(c, TimeError("CurrentUserTopArtists"))
            /\ UNCHANGED url
       ELSE Request(c, [path |-> "me/top/artists", time_range |-> << tm, "_term" >>,
                        limit |-> tot, id |-> ""])

GetAudioAnalysis(c, tid) ==
    /\ Enter(c, "GetAudioAnalysis", 0, "", tid)
    /\ Request(c, [path |-> "audio-analysis/", time_range |-> << >>,
                   limit |-> 0, id |-> tid])

(* Variant: the transport error of the GET is dropped. *)
HttpGetIgnoreError(c, r) ==
    /\ pc[c] = "get"
    /\ gets' = [gets EXCEPT ![c] = @ + 1]
    /\ resp' = [resp EXCEPT ![c] = r]
    /\ pc' = [pc EXCEPT ![c] = "status"]
    /\ UNCHANGED << result, err, op, total, time, id, url, reads, closes >>

(* Variant: a failed GET is tried once more. *)
HttpGetRetry(c, r) ==
    /\ pc[c] = "get"
    /\ gets' = [gets EXCEPT ![c] = @ + 1]
    /\ resp' = [resp EXCEPT ![c] = r]
    /\ IF ~r.err.nil /\ gets[c] = 0
       THEN UNCHANGED << pc, result, err >>
       ELSE IF ~r.err.nil
       THEN ReturnError(c, r.err)
       ELSE /\ pc' = [pc EXCEPT ![c] = "status"]
            /\ UNCHANGED << result, err >>
    /\ UNCHANGED << op, total, time, id, url, reads, closes >>

(* Variant: the response is kept in a slot shared by all callers. *)
HttpGetShared(c, r) ==
    /\ pc[c] = "get"
    /\ gets' = [gets EXCEPT ![c] = @ + 1]
    /\ resp' = [d \in Callers |-> r]
    /\ IF ~r.err.nil
       THEN ReturnError(c, r.err)
       ELSE /\ pc' = [pc EXCEPT ![c] = "status"]
            /\ UNCHANGED << result, err >>
    /\ UNCHANGED << op, total, time, id, url, reads, closes >>

(* resp, err := c.http.Get(spotifyURL); if err != nil { return nil, err } *)
HttpGet(c, r) ==
    /\ pc[c] = "get"
    /\ gets' = [gets EXCEPT ![c] = @ + 1]
    /\ resp' = [resp EXCEPT ![c] = r]
    /\ IF ~r.err.nil
       THEN ReturnError(c, r.err)
       ELSE /\ pc' = [pc EXCEPT ![c] = "status"]
            /\ UNCHANGED << result, err >>
    /\ UNCHANGED << op, total, time, id, url, reads, closes >>

(* if resp.StatusCode != http.StatusOK { return nil, decodeError(resp.Body) } *)
CheckStatus(c) ==
    /\ pc[c] = "status"
    /\ IF StatusNotOK(resp[c].status)
       THEN /\ ReturnError(c, decodeError(resp[c].body))
            /\ reads' = [reads EXCEPT ![c] = @ + 1]
            /\ closes' = [closes EXCEPT ![c] = DeferredClose(@)]
       ELSE /\ pc' = [pc EXCEPT ![c] = "decode"]
            /\ UNCHANGED << result, err, reads, closes >>
    /\ UNCHANGED << op, total, time, id, url, resp, gets >>

(* err = json.NewDecoder(resp.Body).Decode(&x); return nil, err or &x, nil *)
DecodeBody(c) ==
    /\ pc[c] = "decode"
    /\ LET d == JSONDecode(ResultType(op[c]), resp[c].body)
       IN  IF d.err
           THEN ReturnError(c, DecodeErr(resp[c].body))
           ELSE ReturnResult(c, d.val)
    /\ reads' = [reads EXCEPT ![c] = @ + 1]
    /\ closes' = [closes EXCEPT ![c] = DeferredClose(@)]
    /\ UNCHANGED << op, total, time, id, url, resp, gets >>

(* One caller, every parameter value and every response. *)
Next ==
    \/ \E tot \in Totals : CurrentUserRecentTracks("c1", tot)
    \/ \E tot \in Totals, tm \in TimeLabels : CurrentUserTopTracks("c1", tot, tm)
    \/ \E tot \in Totals, tm \in TimeLabels : CurrentUserTopArtists("c1", tot, tm)
    \/ \E tid \in TrackIDs : GetAudioAnalysis("c1", tid)
    \/ \E r \in Responses : HttpGet("c1", r)
    \/ CheckStatus("c1")
    \/ DecodeBody("c1")

Spec == Init /\ [][Next]_vars

(* Two callers sharing one Client, their steps interleaved. *)
ConcTotals == { 0, CountLimit }
ConcLabels == { "short", "weekly" }
ConcResponses ==
    { Failed("timeout") }
        \cup { Response(st, b) : st \in { 200, 404 },
                                 b \in { "tracks2", "malformed", "error" } }

NextConc ==
    \E c \in Callers :
        \/ \E tot \in ConcTotals : CurrentUserRecentTracks(c, tot)
        \/ \E tot \in ConcTotals, tm \in ConcLabels : CurrentUserTopTracks(c, tot, tm)
        \/ \E tot \in ConcTotals, tm \in ConcLabels : CurrentUserTopArtists(c, tot, tm)
        \/ GetAudioAnalysis(c, "t1")
        \/ \E r \in ConcResponses : HttpGet(c, r)
        \/ CheckStatus(c)
        \/ DecodeBody(c)

SpecConc == Init /\ [][NextConc]_vars

(***************************************************************************)
(* Properties.                                                             *)
(***************************************************************************)
ValidCount(n) == n \in 1 .. 50
ValidLabel(t) == t \in { "short", "medium", "long" }
Called(c) == pc[c] # "idle"
Returned(c) == pc[c] = "done"
ArgsValid(c) ==
    /\ op[c] \in CountedOperations => ValidCount(total[c])
    /\ op[c] \in TopOperations => ValidLabel(time[c])
GotResponse(c) == gets[c] >= 1 /\ resp[c].err.nil
LocallyRejected(c) ==
    /\ Returned(c) /\ result[c].nil /\ ~err[c].nil
    /\ err[c].origin = "errors.New" /\ gets[c] = 0

(* C1: in CurrentUserRecentTracks, CurrentUserTopTracks and                *)
(* CurrentUserTopArtists a count outside 1..50 returns a nil result and a  *)
(* non-nil local validation error; a count inside 1..50 (1 and 50          *)
(* included) is never rejected by the count check.                         *)
C1_CountValidation ==
    \A c \in Callers :
        Called(c) /\ op[c] \in CountedOperations =>
            /\ ~ValidCount(total[c]) =>
                  LocallyRejected(c) /\ err[c] = CountError(op[c])
            /\ ValidCount(total[c]) => err[c] # CountError(op[c])

C1_Witness ==
    \E c \in Callers :
        /\ op[c] = "CurrentUserTopArtists" /\ total[c] = 51 /\ time[c] = "short"
        /\ LocallyRejected(c)

(* C2: in CurrentUserTopTracks and CurrentUserTopArtists with a valid      *)
(* count, the call is rejected locally (nil result, validation error)      *)
(* exactly when the label is not one of "short", "medium", "long".        *)
C2_TimeRangeValidation ==
    \A c \in Callers :
        Called(c) /\ op[c] \in TopOperations /\ ValidCount(total[c]) =>
            /\ LocallyRejected(c) <=> ~ValidLabel(time[c])
            /\ ~ValidLabel(time[c]) => err[c] = TimeError(op[c])

C2_Witness ==
    \E c \in Callers :
        /\ op[c] = "CurrentUserTopTracks" /\ total[c] = 50
        /\ time[c] = "short_term" /\ LocallyRejected(c)

(* C3: whenever the GET returns a response whose status is not a success   *)
(* status, the call returns a nil result together with the error decoded   *)
(* from the response body, whatever the body contains.                     *)
C3_NonSuccessIsUpstreamError ==
    \A c \in Callers :
        Returned(c) /\ GotResponse(c) /\ resp[c].status \notin 200 .. 299 =>
            /\ result[c].nil
            /\ err[c] = decodeError(resp[c].body)

C3_Witness ==
    \E c \in Callers :
        /\ Returned(c) /\ GotResponse(c) /\ op[c] = "CurrentUserTopTracks"
        /\ resp[c].status = 301 /\ resp[c].body = "tracks1"
        /\ result[c].nil /\ err[c].origin = "decodeError"

(* C4 as stated: every response with a 2xx status and a well-formed JSON   *)
(* body yields a non-nil result and a nil error.                           *)
C4_Original ==
    \A c \in Callers :
        /\ Returned(c) /\ GotResponse(c)
        /\ resp[c].status \in 200 .. 299 /\ Wellformed(resp[c].body)
        => ~result[c].nil /\ err[c].nil

(* C4 amended: the status check maps a response to an upstream error       *)
(* exactly when its status is not 200; a response with status 200 whose    *)
(* body decodes into the result struct yields a non-nil result and a nil   *)
(* error.                                                                  *)
C4_OnlyStatus200IsDecoded ==
    \A c \in Callers :
        Returned(c) /\ GotResponse(c) =>
            /\ resp[c].status # 200 <=> err[c].origin = "decodeError"
            /\ resp[c].status = 200
                   /\ ~JSONDecode(ResultType(op[c]), resp[c].body).err
               => ~result[c].nil /\ err[c].nil

C4_Witness ==
    \E c \in Callers :
        /\ Returned(c) /\ GotResponse(c) /\ op[c] = "CurrentUserTopArtists"
        /\ resp[c].status = 201 /\ resp[c].body = "artists1"
        /\ result[c].nil /\ err[c].origin = "decodeError"

(* C5 as stated: every error returned is a local validation error or a     *)
(* passthrough of the upstream error body.                                 *)
C5_Original ==
    \A c \in Callers :
        Returned(c) /\ ~err[c].nil =>
            err[c].origin \in { "errors.New", "decodeError" }

(* C5 amended: every error returned has one of four origins: a local       *)
(* validation error (parameters out of range, nothing sent), the transport *)
(* error of the GET, the upstream error body (status not 200), or the      *)
(* JSON decoding error of a status-200 body.                               *)
C5_FourErrorOrigins ==
    \A c \in Callers :
        Returned(c) /\ ~err[c].nil =>
            \/ err[c].origin = "errors.New" /\ ~ArgsValid(c) /\ gets[c] = 0
            \/ /\ err[c].origin = "http.Get" /\ ArgsValid(c)
               /\ ~resp[c].err.nil /\ err[c] = resp[c].err
            \/ /\ err[c].origin = "decodeError" /\ ArgsValid(c)
               /\ GotResponse(c) /\ resp[c].status # 200
            \/ /\ err[c].origin = "json.Decode" /\ ArgsValid(c)
               /\ GotResponse(c) /\ resp[c].status = 200

C5_Witness ==
    \E c \in Callers :
        /\ Returned(c) /\ op[c] = "GetAudioAnalysis"
        /\ err[c] = TransportError("timeout") /\ result[c].nil

(* The key under which the upstream service sends a field: the key of the  *)
(* field's tag, the object type of every upstream object being sent under  *)
(* "type".                                                                 *)
UpstreamKey(S, f) == IF f = "Type" THEN "type" ELSE FieldOf(S, f).tag

RECURSIVE Faithful(_, _, _)
FaithfulElem(ty, x, j) ==
    CASE j.k = "null" -> TRUE
      [] ty = "string" -> j.k = "str" => x = j.s
      [] ty = "int" -> j.k = "num" => x = j.n
      [] ty = "float64" ->
            /\ j.k = "num" => x = j.n * 1000
            /\ j.k = "frac" => x = j.n
      [] ty = "bool" -> j.k = "bool" => x = (j.n = 1)
      [] ty = "map" ->
            j.k = "obj" =>
                /\ DOMAIN x = DOMAIN j.o
                /\ \A key \in DOMAIN j.o : x[key] = j.o[key].s
      [] ty \in OpaqueStructs -> TRUE
      [] OTHER -> j.k = "obj" => Faithful(ty, x, j)

FaithfulField(fd, x, j) ==
    IF ~fd.slice THEN FaithfulElem(fd.ty, x, j)
    ELSE j.k = "arr" =>
            /\ Len(x) = Len(j.a)
            /\ \A i \in DOMAIN j.a : FaithfulElem(fd.ty, x[i], j.a[i])

(* Every field of struct value x equals the value the JSON object j has    *)
(* under the field's upstream key.                                         *)
Faithful(S, x, j) ==
    \A f \in FieldNames(S) :
        UpstreamKey(S, f) \in DOMAIN j.o =>
            FaithfulField(FieldOf(S, f), x[f], j.o[UpstreamKey(S, f)])

(* C6: on a success response every field of the result equals the value    *)
(* the body has under the field's upstream key (a track item's object type *)
(* comes from the key "type").                                            *)
C6_DecodingFaithful ==
    \A c \in Callers :
        Returned(c) /\ ~result[c].nil /\ ParseJSON(resp[c].body).k = "obj" =>
            Faithful(ResultType(op[c]), result[c].v, ParseJSON(resp[c].body))

(* C7: a call issues no GET when parameter validation fails and exactly    *)
(* one GET otherwise; no outcome of the GET causes a second request.       *)
C7_AtMostOneGet ==
    \A c \in Callers :
        /\ gets[c] <= 1
        /\ pc[c] \in { "idle", "get" } => gets[c] = 0
        /\ pc[c] \in { "status", "decode" } => gets[c] = 1
        /\ Returned(c) => gets[c] = IF ArgsValid(c) THEN 1 ELSE 0

C7_Witness ==
    \E c \in Callers :
        /\ Returned(c) /\ ArgsValid(c) /\ op[c] = "CurrentUserRecentTracks"
        /\ ~resp[c].err.nil /\ gets[c] = 1

(* The outcome of a call run alone, from its arguments and the response    *)
(* to its GET.                                                             *)
AloneOutcome(o, tot, tm, r) ==
    IF o \in CountedOperations /\ ~ValidCount(tot)
    THEN [result |-> NilResult, err |-> CountError(o)]
    ELSE IF o \in TopOperations /\ ~ValidLabel(tm)
    THEN [result |-> NilResult, err |-> TimeError(o)]
    ELSE IF ~r.err.nil THEN [result |-> NilResult, err |-> r.err]
    ELSE IF r.status # 200
    THEN [result |-> NilResult, err |-> decodeError(r.body)]
    ELSE LET d == JSONDecode(ResultType(o), r.body)
         IN  IF d.err THEN [result |-> NilResult, err |-> DecodeErr(r.body)]
             ELSE [result |-> Pointer(d.val), err |-> NoError]

SameOutcome(c, out) ==
    /\ result[c].nil = out.result.nil
    /\ err[c] = out.err
    /\ ~result[c].nil => result[c].v = out.result.v

LocalsUnchanged(c) ==
    /\ op'[c] = op[c] /\ total'[c] = total[c] /\ time'[c] = time[c]
    /\ id'[c] = id[c] /\ url'[c] = url[c] /\ resp'[c] = resp[c]
    /\ err'[c] = err[c] /\ result'[c].nil = result[c].nil
    /\ gets'[c] = gets[c] /\ reads'[c] = reads[c] /\ closes'[c] = closes[c]

(* C8: with calls interleaved on one Client, each call's outcome is the    *)
(* outcome it has when run alone on its own arguments and its own          *)
(* response, and a step of one call changes nothing of another call.       *)
C8_CallsIndependent ==
    /\ [](\A c \in Callers :
            Returned(c) =>
                SameOutcome(c, AloneOutcome(op[c], total[c], time[c], resp[c])))
    /\ [][\A c \in Callers : pc'[c] = pc[c] => LocalsUnchanged(c)]_vars

C8_Witness ==
    /\ Returned("c1") /\ Returned("c2")
    /\ op["c1"] = "CurrentUserTopTracks" /\ ~result["c1"].nil
    /\ op["c2"] = "CurrentUserTopTracks" /\ err["c2"].origin = "http.Get"

(* C9: the first error in the order count check, time-range check, GET     *)
(* transport error, status check, body decode is returned and the call     *)
(* stops there; exactly one of result and error is non-nil.                *)
C9_FirstErrorInOrder ==
    \A c \in Callers :
        Returned(c) =>
            /\ result[c].nil # err[c].nil
            /\ op[c] \in CountedOperations /\ ~ValidCount(total[c]) =>
                  err[c] = CountError(op[c]) /\ gets[c] = 0
            /\ /\ op[c] \in TopOperations /\ ValidCount(total[c])
               /\ ~ValidLabel(time[c])
               => err[c] = TimeError(op[c]) /\ gets[c] = 0
            /\ ArgsValid(c) /\ ~resp[c].err.nil =>
                  err[c] = resp[c].err /\ reads[c] = 0
            /\ ArgsValid(c) /\ resp[c].err.nil /\ resp[c].status # 200 =>
                  err[c].origin = "decodeError"
            /\ ArgsValid(c) /\ resp[c].err.nil /\ resp[c].status = 200 =>
                  err[c].origin \in { "", "json.Decode" }

C9_Witness ==
    \E c \in Callers :
        /\ Returned(c) /\ op[c] = "CurrentUserTopTracks"
        /\ total[c] = 0 /\ time[c] = "year"
        /\ err[c] = CountError("CurrentUserTopTracks")

(* C10: when the GET returned a response, its body is closed exactly once  *)
(* by the time the call returns, on every exit path; when the GET failed   *)
(* or validation failed, no body is closed or read.                        *)
C10_BodyClosedOnce ==
    \A c \in Callers :
        /\ closes[c] <= 1
        /\ ~Returned(c) => closes[c] = 0
        /\ Returned(c) /\ GotResponse(c) => closes[c] = 1
        /\ Returned(c) /\ ~GotResponse(c) => closes[c] = 0 /\ reads[c] = 0

C10_Witness ==
    \E c \in Callers :
        /\ Returned(c) /\ GotResponse(c) /\ resp[c].status = 200
        /\ resp[c].body = "malformed" /\ err[c].origin = "json.Decode"
        /\ closes[c] = 1

====
